---- MODULE Spec2Model ----
(***************************************************************************)
(* Model of krpc-mars' value codec (src/src/codec.rs): RPCEncodable,       *)
(* RPCExtractable, read_message, extract_single_result, extract_result.    *)
(*                                                                         *)
(* Bytes are naturals 0..255, buffers are sequences of bytes.  A stream    *)
(* position is the number of bytes already consumed (0-based offset).      *)
(* Integers of the model stay below 2^28, so the u32/u64 truncations of    *)
(* the varint readers are the identity on every modelled value.            *)
(***************************************************************************)
EXTENDS Integers, Sequences, FiniteSets, TLC

\* ------------------------------------------------------------------ bounds
\* longest sequence handed to the encoder
MaxLen == 4
\* longest item list of a wrapper received from the wire
MaxItems == 3
\* most messages written back to back on one byte source
MaxMsgs == 3
\* most procedure results in one response
MaxResults == 2

\* ------------------------------------------------------- library constants
\* protobuf's CodedInputStream::new wraps the reader in a buffer of this size
INPUT_STREAM_BUFFER_SIZE == 4096
\* a varint is at most this many bytes long
MAX_VARINT_BYTES == 10

\* ------------------------------------------------------------------- types
TBool == <<"bool">>
TUnit == <<"unit">>
TF64 == <<"f64">>
TF32 == <<"f32">>
TU64 == <<"u64">>
TU32 == <<"u32">>
TI64 == <<"i64">>
TI32 == <<"i32">>
TStr == <<"str">>
TVec(T) == <<"vec", T>>
TSet(T) == <<"set", T>>
TMap(K, V) == <<"map", K, V>>
TTup(ts) == <<"tup", ts>>

Kind(t) == t[1]

\* ----------------------------------------------------------- small helpers
Min(a, b) == IF a < b THEN a ELSE b

Range(s) == {s[i] : i \in DOMAIN s}

Bytes(b, p, n) == SubSeq(b, p + 1, p + n)

\* let x = ...; a value computed once and used in what follows
Bind(x, F(_)) == F(x)

RECURSIVE Concat(_)
Concat(ss) == IF ss = <<>> THEN <<>> ELSE Head(ss) \o Concat(Tail(ss))

\* Result of a read on an input stream.
Ok(v, p, c) == [st |-> "Ok", val |-> v, err |-> "", pos |-> p, calls |-> c]
Err(e, p, c) == [st |-> "Err", val |-> <<>>, err |-> e, pos |-> p, calls |-> c]
Panic(e, p, c) == [st |-> "Panic", val |-> <<>>, err |-> e, pos |-> p, calls |-> c]
Fail(r, c) == [r EXCEPT !.val = <<>>, !.calls = c]

\* ------------------------------------------------- CodedOutputStream model
\* An output stream over a Vec<u8>: written bytes sit in the stream's buffer
\* until flush() moves them to the sink.
NewOutput == [sink |-> <<>>, buffer |-> <<>>]
WriteRaw(out, bs) == [out EXCEPT !.buffer = @ \o bs]
Flush(out) == [sink |-> out.sink \o out.buffer, buffer |-> <<>>]

RECURSIVE Varint(_)
Varint(n) == IF n < 128 THEN <<n>> ELSE <<(n % 128) + 128>> \o Varint(n \div 128)

ZigZagEncode(n) == IF n >= 0 THEN 2 * n ELSE (-2 * n) - 1
ZigZagDecode(n) == IF n % 2 = 0 THEN n \div 2 ELSE -((n + 1) \div 2)

\* ------------------------------------------------- CodedInputStream model
\* A stream over the data b with a pushed limit lim (Len(b) when none is pushed).
\* A read that would pass the limit fails before it touches the data; a read
\* within the limit that finds the data exhausted fails at the end of the data.
\* read_raw_varint64 on buffer b from offset p, not reading past lim.
RECURSIVE ReadVarintFrom(_, _, _, _, _, _)
ReadVarintFrom(b, p, lim, mult, acc, n) ==
  IF n = MAX_VARINT_BYTES THEN Err("IncorrectVarint", p, 0)
  ELSE IF p >= lim \/ p >= Len(b) THEN Err("UnexpectedEof", p, 0)
  ELSE LET byte == b[p + 1] IN
       IF byte < 128 THEN Ok(acc + byte * mult, p + 1, 0)
       ELSE ReadVarintFrom(b, p + 1, lim, mult * 128, acc + (byte - 128) * mult, n + 1)

ReadVarint(b, p, lim) == ReadVarintFrom(b, p, lim, 1, 0, 0)

\* read_raw_bytes(n)
ReadRaw(b, p, lim, n) ==
  IF p + n > lim THEN Err("UnexpectedEof", p, 0)
  ELSE IF p + n > Len(b) THEN Err("UnexpectedEof", Len(b), 0)
  ELSE Ok(Bytes(b, p, n), p + n, 0)

\* read_bytes: a varint length, then that many bytes
ReadBytes(b, p, lim) ==
  Bind(ReadVarint(b, p, lim),
       LAMBDA l : IF l.st # "Ok" THEN l ELSE ReadRaw(b, l.pos, lim, l.val))

IsCont(x) == x >= 128 /\ x <= 191

\* String::from_utf8's validity check
RECURSIVE ValidUtf8(_)
ValidUtf8(s) ==
  IF s = <<>> THEN TRUE
  ELSE LET n == Len(s)
           c == s[1]
           rest(k) == ValidUtf8(SubSeq(s, k + 1, n))
       IN
       IF c < 128 THEN rest(1)
       ELSE IF c >= 194 /\ c <= 223 THEN n >= 2 /\ IsCont(s[2]) /\ rest(2)
       ELSE IF c = 224 THEN n >= 3 /\ s[2] >= 160 /\ s[2] <= 191 /\ IsCont(s[3]) /\ rest(3)
       ELSE IF c = 237 THEN n >= 3 /\ s[2] >= 128 /\ s[2] <= 159 /\ IsCont(s[3]) /\ rest(3)
       ELSE IF c >= 225 /\ c <= 239 THEN n >= 3 /\ IsCont(s[2]) /\ IsCont(s[3]) /\ rest(3)
       ELSE IF c = 240 THEN
         n >= 4 /\ s[2] >= 144 /\ s[2] <= 191 /\ IsCont(s[3]) /\ IsCont(s[4]) /\ rest(4)
       ELSE IF c >= 241 /\ c <= 243 THEN
         n >= 4 /\ IsCont(s[2]) /\ IsCont(s[3]) /\ IsCont(s[4]) /\ rest(4)
       ELSE IF c = 244 THEN
         n >= 4 /\ s[2] >= 128 /\ s[2] <= 143 /\ IsCont(s[3]) /\ IsCont(s[4]) /\ rest(4)
       ELSE FALSE

\* read_string
ReadString(b, p, lim) ==
  Bind(ReadBytes(b, p, lim),
       LAMBDA r : IF r.st # "Ok" THEN r
                  ELSE IF ValidUtf8(r.val) THEN r ELSE Err("Utf8", r.pos, 0))

\* read_tag_unpack: a varint32 tag split into field number and wire type.
\* Wire types 6 and 7 do not exist; Tag::field_number asserts the number positive.
ReadTagUnpack(b, p, lim) ==
  Bind(ReadVarint(b, p, lim),
       LAMBDA v : IF v.st # "Ok" THEN v
                  ELSE IF v.val % 8 > 5 THEN Err("IncorrectTag", v.pos, 0)
                  ELSE IF v.val \div 8 = 0
                       THEN Panic("field number must be positive", v.pos, 0)
                       ELSE Ok([field |-> v.val \div 8, wt |-> v.val % 8], v.pos, 0))

\* read_unknown / skip_group: skipping a field the schema does not know
RECURSIVE ReadUnknown(_, _, _, _), SkipGroup(_, _, _)
ReadUnknown(b, p, lim, wt) ==
  CASE wt = 0 -> ReadVarint(b, p, lim)
    [] wt = 1 -> ReadRaw(b, p, lim, 8)
    [] wt = 2 -> ReadBytes(b, p, lim)
    [] wt = 3 -> SkipGroup(b, p, lim)
    [] wt = 5 -> ReadRaw(b, p, lim, 4)
    [] OTHER -> Err("UnexpectedWireType", p, 0)

SkipGroup(b, p, lim) ==
  IF p >= lim \/ p >= Len(b) THEN Ok(<<>>, p, 0)
  ELSE Bind(ReadTagUnpack(b, p, lim),
         LAMBDA t : IF t.st # "Ok" THEN t
                    ELSE IF t.val.wt = 4 THEN Ok(<<>>, t.pos, 0)
                    ELSE Bind(ReadUnknown(b, t.pos, lim, t.val.wt),
                           LAMBDA s : IF s.st # "Ok" THEN s ELSE SkipGroup(b, s.pos, lim)))

\* krpc::List / krpc::Set merge_from: "repeated bytes items = 1", read until
\* the stream (or its limit) is exhausted.
RECURSIVE MergeItems(_, _, _, _)
MergeItems(b, p, lim, items) ==
  IF p >= lim \/ p >= Len(b) THEN Ok(items, p, 0)
  ELSE Bind(ReadTagUnpack(b, p, lim),
         LAMBDA t :
           IF t.st # "Ok" THEN t
           ELSE IF t.val.field = 1 THEN
             IF t.val.wt # 2 THEN Err("UnexpectedWireType", t.pos, 0)
             ELSE Bind(ReadBytes(b, t.pos, lim),
                    LAMBDA x : IF x.st # "Ok" THEN x
                               ELSE MergeItems(b, x.pos, lim, Append(items, x.val)))
           ELSE Bind(ReadUnknown(b, t.pos, lim, t.val.wt),
                  LAMBDA s : IF s.st # "Ok" THEN s ELSE MergeItems(b, s.pos, lim, items)))

\* krpc::DictionaryEntry merge_from: "bytes key = 1; bytes value = 2"
RECURSIVE MergeEntry(_, _, _, _)
MergeEntry(b, p, lim, e) ==
  IF p >= lim THEN Ok(e, p, 0)
  ELSE Bind(ReadTagUnpack(b, p, lim),
         LAMBDA t :
           IF t.st # "Ok" THEN t
           ELSE IF t.val.field \in {1, 2} THEN
             IF t.val.wt # 2 THEN Err("UnexpectedWireType", t.pos, 0)
             ELSE Bind(ReadBytes(b, t.pos, lim),
                    LAMBDA x : IF x.st # "Ok" THEN x
                               ELSE MergeEntry(b, x.pos, lim,
                                      IF t.val.field = 1 THEN [e EXCEPT !.key = x.val]
                                      ELSE [e EXCEPT !.value = x.val]))
           ELSE Bind(ReadUnknown(b, t.pos, lim, t.val.wt),
                  LAMBDA s : IF s.st # "Ok" THEN s ELSE MergeEntry(b, s.pos, lim, e)))

\* krpc::Dictionary merge_from: "repeated DictionaryEntry entries = 1"; each
\* entry is parsed under a limit of its own length (capped by the data there is).
RECURSIVE MergeEntries(_, _, _, _)
MergeEntries(b, p, lim, entries) ==
  IF p >= lim THEN Ok(entries, p, 0)
  ELSE Bind(ReadTagUnpack(b, p, lim),
         LAMBDA t :
           IF t.st # "Ok" THEN t
           ELSE IF t.val.field = 1 THEN
             IF t.val.wt # 2 THEN Err("UnexpectedWireType", t.pos, 0)
             ELSE Bind(ReadVarint(b, t.pos, lim),
                    LAMBDA l :
                      IF l.st # "Ok" THEN l
                      ELSE Bind(MergeEntry(b, l.pos, Min(l.pos + l.val, lim),
                                           [key |-> <<>>, value |-> <<>>]),
                             LAMBDA e : IF e.st # "Ok" THEN e
                                        ELSE MergeEntries(b, e.pos, lim, Append(entries, e.val))))
           ELSE Bind(ReadUnknown(b, t.pos, lim, t.val.wt),
                  LAMBDA s : IF s.st # "Ok" THEN s ELSE MergeEntries(b, s.pos, lim, entries)))

\* faulty variant: an insert that keeps the value already there (entry().or_insert)
MapInsertKeepFirst(h, k, v) ==
  [x \in (DOMAIN h) \cup {k} |-> IF x \in DOMAIN h THEN h[x] ELSE v]

\* HashMap::insert: a later value for an equal key replaces the earlier one
MapInsert(h, k, v) == [x \in (DOMAIN h) \cup {k} |-> IF x = k THEN v ELSE h[x]]
EmptyMap == [x \in {} |-> <<>>]

\* ---------------------------------------------------------- RPCExtractable
\* extract_value(t, b, p): decode one value of type t from the stream over b
\* positioned at p.  calls counts the extract_value invocations made.
RECURSIVE extract_value(_, _, _), ExtractVecItems(_, _, _, _, _),
          ExtractSetItems(_, _, _, _, _), ExtractMapEntries(_, _, _, _, _, _),
          ExtractSlots(_, _, _, _, _, _), ExtractVecItemsCollect(_, _, _, _, _)

\* faulty variant: a loop that decodes every item and reports the last failure
ExtractVecItemsCollect(T, items, i, v, calls) ==
  IF i > Len(items) THEN Ok(v, 0, calls)
  ELSE Bind(extract_value(T, items[i], 0),
         LAMBDA r :
           Bind(ExtractVecItemsCollect(T, items, i + 1,
                  IF r.st = "Ok" THEN Append(v, r.val) ELSE v, calls + r.calls),
             LAMBDA rest : IF r.st = "Ok" \/ rest.st # "Ok" THEN rest
                           ELSE Fail(r, rest.calls)))

\* for item in &m.items { v.push(extract_value(from_bytes(item))?) }
ExtractVecItems(T, items, i, v, calls) ==
  IF i > Len(items) THEN Ok(v, 0, calls)
  ELSE Bind(extract_value(T, items[i], 0),
         LAMBDA r :
           IF r.st # "Ok" THEN Fail(r, calls + r.calls)
           ELSE ExtractVecItems(T, items, i + 1, Append(v, r.val), calls + r.calls))

\* for item in &m.items { s.insert(extract_value(from_bytes(item))?) }
ExtractSetItems(T, items, i, s, calls) ==
  IF i > Len(items) THEN Ok(s, 0, calls)
  ELSE Bind(extract_value(T, items[i], 0),
         LAMBDA r :
           IF r.st # "Ok" THEN Fail(r, calls + r.calls)
           ELSE ExtractSetItems(T, items, i + 1, s \cup {r.val}, calls + r.calls))

\* for entry in &m.entries { key = extract(key)?; val = extract(value)?; h.insert(key, val) }
ExtractMapEntries(K, V, entries, i, h, calls) ==
  IF i > Len(entries) THEN Ok(h, 0, calls)
  ELSE Bind(extract_value(K, entries[i].key, 0),
         LAMBDA k :
           IF k.st # "Ok" THEN Fail(k, calls + k.calls)
           ELSE Bind(extract_value(V, entries[i].value, 0),
                  LAMBDA v :
                    IF v.st # "Ok" THEN Fail(v, calls + k.calls + v.calls)
                    ELSE ExtractMapEntries(K, V, entries, i + 1,
                           MapInsert(h, k.val, v.val), calls + k.calls + v.calls)))

\* let t = extract_value(input)?; let u = extract_value(input)?; ... on one stream
ExtractSlots(ts, b, p, i, acc, calls) ==
  IF i > Len(ts) THEN Ok(acc, p, calls)
  ELSE Bind(extract_value(ts[i], b, p),
         LAMBDA r :
           IF r.st # "Ok" THEN Fail(r, calls + r.calls)
           ELSE ExtractSlots(ts, b, r.pos, i + 1, Append(acc, r.val), calls + r.calls))

\* this call's own read: one more extract_value invocation
Counted(r) == IF r.st = "Ok" THEN [r EXCEPT !.calls = 1] ELSE Fail(r, 1)

\* the value read converted to the Rust type
MapVal(r, F(_)) == IF r.st = "Ok" THEN [r EXCEPT !.val = F(@)] ELSE r

NonZero(x) == x # 0

extract_value(t, b, p) ==
  CASE Kind(t) = "bool" -> MapVal(Counted(ReadVarint(b, p, Len(b))), NonZero)
    [] Kind(t) = "unit" -> Ok(<<>>, p, 1)
    [] Kind(t) = "f64" -> Counted(ReadRaw(b, p, Len(b), 8))
    [] Kind(t) = "f32" -> Counted(ReadRaw(b, p, Len(b), 4))
    [] Kind(t) \in {"u64", "u32"} -> Counted(ReadVarint(b, p, Len(b)))
    [] Kind(t) \in {"i64", "i32"} -> MapVal(Counted(ReadVarint(b, p, Len(b))), ZigZagDecode)
    [] Kind(t) = "str" -> Counted(ReadString(b, p, Len(b)))
    [] Kind(t) = "vec" ->
         Bind(MergeItems(b, p, Len(b), <<>>),
           LAMBDA m : IF m.st # "Ok" THEN Fail(m, 1)
                      ELSE [ExtractVecItems(t[2], m.val, 1, <<>>, 1) EXCEPT !.pos = m.pos])
    [] Kind(t) = "set" ->
         Bind(MergeItems(b, p, Len(b), <<>>),
           LAMBDA m : IF m.st # "Ok" THEN Fail(m, 1)
                      ELSE [ExtractSetItems(t[2], m.val, 1, {}, 1) EXCEPT !.pos = m.pos])
    [] Kind(t) = "map" ->
         Bind(MergeEntries(b, p, Len(b), <<>>),
           LAMBDA m : IF m.st # "Ok" THEN Fail(m, 1)
                      ELSE [ExtractMapEntries(t[2], t[3], m.val, 1, EmptyMap, 1)
                              EXCEPT !.pos = m.pos])
    [] Kind(t) = "tup" -> ExtractSlots(t[2], b, p, 1, <<>>, 1)

\* ------------------------------------------------------------ RPCEncodable
\* Message::write_to of a krpc::List: each item as field 1, length-delimited
RECURSIVE ListWire(_)
ListWire(items) ==
  IF items = <<>> THEN <<>>
  ELSE <<10>> \o Varint(Len(Head(items))) \o Head(items) \o ListWire(Tail(items))

RECURSIVE encode(_, _, _), encode_to_bytes(_, _), EncodeItems(_, _), EncodeSlots(_, _, _, _),
          EncodeItemsReversed(_, _)

\* faulty variant: the blobs pushed in reverse order
EncodeItemsReversed(T, v) ==
  IF v = <<>> THEN <<>>
  ELSE EncodeItemsReversed(T, Tail(v)) \o <<encode_to_bytes(T, Head(v))>>

\* for e in self { v.push(e.encode_to_bytes()?) }
EncodeItems(T, v) ==
  IF v = <<>> THEN <<>>
  ELSE <<encode_to_bytes(T, Head(v))>> \o EncodeItems(T, Tail(v))

\* t.encode(output)?; u.encode(output)?; ... into one output stream
EncodeSlots(ts, v, i, out) ==
  IF i > Len(ts) THEN out
  ELSE EncodeSlots(ts, v, i + 1, encode(ts[i], v[i], out))

encode(t, v, out) ==
  CASE Kind(t) = "bool" -> WriteRaw(out, Varint(IF v THEN 1 ELSE 0))
    [] Kind(t) \in {"f64", "f32"} -> WriteRaw(out, v)
    [] Kind(t) \in {"u32", "u64"} -> WriteRaw(out, Varint(v))
    [] Kind(t) \in {"i32", "i64"} -> WriteRaw(out, Varint(ZigZagEncode(v)))
    [] Kind(t) = "str" -> WriteRaw(out, Varint(Len(v)) \o v)
    [] Kind(t) = "vec" -> Flush(WriteRaw(out, ListWire(EncodeItems(t[2], v))))
    [] Kind(t) = "tup" -> Flush(EncodeSlots(t[2], v, 1, out))

encode_to_bytes(t, v) == Flush(encode(t, v, NewOutput)).sink

\* ------------------------------------------------------- bounded universes
SeqsUpTo(S, n) == UNION {[1..k -> S] : k \in 0..n}

IsPrim(t) == Kind(t) \notin {"vec", "set", "map", "tup"}

\* "a", "abc", "é" as UTF-8 bytes
StrA == <<97>>
StrAbc == <<97, 98, 99>>
StrEAcute == <<195, 169>>

\* Values of a primitive type offered at the top level.
Prim(t) ==
  CASE Kind(t) = "bool" -> BOOLEAN
    [] Kind(t) = "u32" -> {0, 1, 2, 3, 127, 128, 300}
    [] Kind(t) = "u64" -> {0, 1, 128, 16384, 2097152}
    [] Kind(t) = "i32" -> {-65, -64, -1, 0, 1, 63, 64}
    [] Kind(t) = "i64" -> {-8193, -1, 0, 1, 8192}
    [] Kind(t) = "str" -> {<<>>, StrA, StrAbc, StrEAcute}
    [] Kind(t) = "f32" -> {<<0, 0, 0, 0>>, <<0, 0, 128, 63>>}
    [] Kind(t) = "f64" -> {<<0, 0, 0, 0, 0, 0, 0, 0>>, <<0, 0, 0, 0, 0, 0, 240, 63>>}

\* Values offered as elements of a sequence or slots of a tuple.
Elem(t) ==
  CASE Kind(t) = "bool" -> BOOLEAN
    [] Kind(t) = "u32" -> {1, 2, 3}
    [] Kind(t) = "u64" -> {0, 300}
    [] Kind(t) = "i32" -> {-1, 64}
    [] Kind(t) = "i64" -> {-65, 1}
    [] Kind(t) = "str" -> {<<>>, StrAbc}
    [] t = TVec(TU32) -> {<<>>, <<1>>, <<1, 2>>}
    [] t = TVec(TStr) -> {<<>>, <<StrAbc>>}
    [] t = TTup(<<TBool, TStr>>) -> {<<TRUE, StrAbc>>, <<FALSE, <<>>>>}
    [] t = TTup(<<TVec(TU32), TVec(TU32)>>) -> {<<<<1>>, <<2>>>>, <<<<1, 2>>, <<>>>>}

RECURSIVE Slots(_)
Slots(ts) ==
  IF ts = <<>> THEN {<<>>}
  ELSE {<<x>> \o r : x \in Elem(Head(ts)), r \in Slots(Tail(ts))}

Vals(t) ==
  CASE IsPrim(t) -> Prim(t)
    [] Kind(t) = "vec" -> SeqsUpTo(Elem(t[2]), MaxLen)
    [] Kind(t) = "tup" -> Slots(t[2])

\* The types values are encoded at.
EncTypes ==
  {TBool, TU32, TU64, TI32, TI64, TStr, TF32, TF64,
   TVec(TBool), TVec(TU32), TVec(TStr), TVec(TVec(TU32)),
   TVec(TTup(<<TBool, TStr>>)), TVec(TTup(<<TVec(TU32), TVec(TU32)>>)),
   TTup(<<TBool, TStr>>), TTup(<<TU32, TI32>>), TTup(<<TStr, TU64, TI64>>),
   TTup(<<TBool, TU32, TI32, TStr>>),
   TTup(<<TBool, TVec(TU32)>>), TTup(<<TVec(TU32), TBool>>),
   TTup(<<TVec(TU32), TVec(TU32)>>), TTup(<<TStr, TVec(TStr), TU32>>)}

\* The first k slots of a tuple type, as the type decoded from the shared stream.
SlotPrefix(t, k) == IF k = 1 THEN t[2][1] ELSE TTup(SubSeq(t[2], 1, k))

\* The types a caller may ask for when decoding bytes encoded at type t: the
\* type itself, the set of the same elements for a sequence, and for a tuple
\* the slots decoded so far from the shared stream.
DecTypes(t) ==
  {t} \cup (IF Kind(t) = "vec" THEN {TSet(t[2])} ELSE {})
      \cup (IF Kind(t) = "tup" THEN {SlotPrefix(t, k) : k \in 1..(Len(t[2]) - 1)} ELSE {})

\* Blobs a remote peer may put in a wrapper for an element of type t: complete
\* encodings, a truncated one, and for strings one that is not UTF-8.
Blobs(t) ==
  CASE Kind(t) = "str" -> {<<1, 97>>, <<3, 97, 98, 99>>, <<2, 97>>, <<1, 255>>}
    [] Kind(t) = "u32" -> {<<1>>, <<2>>, <<129, 0>>, <<128>>}

\* Message::write_to of a krpc::Dictionary, as a peer following the schema
\* writes it: entries = 1 { key = 1, value = 2 }
EntryWire(e) ==
  <<10>> \o Varint(Len(e.key)) \o e.key \o <<18>> \o Varint(Len(e.value)) \o e.value

RECURSIVE DictWire(_)
DictWire(entries) ==
  IF entries = <<>> THEN <<>>
  ELSE LET body == EntryWire(Head(entries)) IN
       <<10>> \o Varint(Len(body)) \o body \o DictWire(Tail(entries))

\* The types a payload from the wire is decoded at.
WireTypes ==
  {TVec(TStr), TSet(TStr), TVec(TU32), TSet(TU32), TMap(TStr, TU32), TMap(TU32, TStr),
   TTup(<<TStr, TU32>>), TTup(<<TU32, TStr, TStr>>), TTup(<<TStr, TU32, TU32, TStr>>)}

RECURSIVE BlobSlots(_)
BlobSlots(ts) ==
  IF ts = <<>> THEN {<<>>}
  ELSE {<<x>> \o r : x \in Blobs(Head(ts)), r \in BlobSlots(Tail(ts))}

\* What a wrapper for type t may hold: item blobs, key/value blob pairs, or for
\* a tuple the blobs written back to back.
WireContents(t) ==
  CASE Kind(t) \in {"vec", "set"} -> SeqsUpTo(Blobs(t[2]), MaxItems)
    [] Kind(t) = "map" ->
         SeqsUpTo({[key |-> k, value |-> v] : k \in Blobs(t[2]), v \in Blobs(t[3])}, MaxItems)
    [] Kind(t) = "tup" -> BlobSlots(t[2])

WireBytes(t, items) ==
  CASE Kind(t) \in {"vec", "set"} -> ListWire(items)
    [] Kind(t) = "map" -> DictWire(items)
    [] Kind(t) = "tup" -> Concat(items)

\* ------------------------------------------------------------------- state
VARIABLES ty, val, bytes, dty, res, pc,
          wty, witems, wbytes, wres, wpc,
          response, rty, ridx, out, rpc,
          sock, sent, got

cvars == <<ty, val, bytes, dty, res, pc>>
wvars == <<wty, witems, wbytes, wres, wpc>>
rvars == <<response, rty, ridx, out, rpc>>
svars == <<sock, sent, got>>
vars == <<cvars, wvars, rvars, svars>>

NoRes == [st |-> "None", val |-> <<>>, err |-> "", pos |-> 0, calls |-> 0]

IdleCodec ==
  /\ ty = <<"none">> /\ val = <<>> /\ bytes = <<>> /\ dty = <<"none">>
  /\ res = NoRes /\ pc = "idle"

IdleWire ==
  /\ wty = <<"none">> /\ witems = <<>> /\ wbytes = <<>> /\ wres = NoRes /\ wpc = "idle"

NoOut == [kind |-> "None", val |-> <<>>, err |-> "", calls |-> 0]

IdleResult ==
  /\ response = [error |-> <<>>, results |-> <<>>] /\ rty = <<"none">> /\ ridx = 0
  /\ out = NoOut /\ rpc = "idle"

IdleStream == sock = <<>> /\ sent = <<>> /\ got = <<>>

\* -------------------------------------------------- encode, then decode
InitCodec ==
  /\ \E t \in EncTypes : \E v \in Vals(t) : ty = t /\ val = v
  /\ bytes = <<>>
  /\ dty = <<"none">>
  /\ res = NoRes
  /\ pc = "start"
  /\ IdleWire /\ IdleResult /\ IdleStream

\* v.encode_to_bytes()
EncodeToBytes ==
  /\ pc = "start"
  /\ bytes' = encode_to_bytes(ty, val)
  /\ pc' = "encoded"
  /\ UNCHANGED <<ty, val, dty, res, wvars, rvars, svars>>

\* T::extract_value(client, &mut CodedInputStream::from_bytes(&bytes))
ExtractValue ==
  /\ pc = "encoded"
  /\ \E t \in DecTypes(ty) :
       /\ dty' = t
       /\ res' = extract_value(t, bytes, 0)
  /\ pc' = "decoded"
  /\ UNCHANGED <<ty, val, bytes, wvars, rvars, svars>>

NextCodec == EncodeToBytes \/ ExtractValue

SpecCodec == InitCodec /\ [][NextCodec]_vars

\* ------------------------------------- decode of a payload from the wire
InitWire ==
  /\ \E t \in WireTypes : \E c \in WireContents(t) : wty = t /\ witems = c
  /\ wbytes = <<>>
  /\ wres = NoRes
  /\ wpc = "start"
  /\ IdleCodec /\ IdleResult /\ IdleStream

\* the peer's payload arrives
ReceiveWire ==
  /\ wpc = "start"
  /\ wbytes' = WireBytes(wty, witems)
  /\ wpc' = "received"
  /\ UNCHANGED <<wty, witems, wres, cvars, rvars, svars>>

\* T::extract_value(client, &mut CodedInputStream::from_bytes(&payload))
ExtractWire ==
  /\ wpc = "received"
  /\ wres' = extract_value(wty, wbytes, 0)
  /\ wpc' = "decoded"
  /\ UNCHANGED <<wty, witems, wbytes, cvars, rvars, svars>>

NextWire == ReceiveWire \/ ExtractWire

SpecWire == InitWire /\ [][NextWire]_vars

\* ------------------------------------------------------- result classifier
\* An optional krpc::Error field is <<>> when unset and <<e>> when set.
HasError(m) == m.error # <<>>
GetError(m) == m.error[1]

ProcFailure(e) == [kind |-> "ProcFailure", val |-> <<>>, err |-> e, calls |-> 0]

\* faulty variant: a decode error reported as if the remote procedure had failed
extract_result_conflated(T, proc_result) ==
  IF HasError(proc_result) THEN ProcFailure(GetError(proc_result))
  ELSE Bind(extract_value(T, proc_result.value, 0),
         LAMBDA r : [kind |-> IF r.st = "Ok" THEN "Ok" ELSE "ProcFailure",
                     val |-> r.val, err |-> r.err, calls |-> r.calls])

extract_result(T, proc_result) ==
  IF HasError(proc_result) THEN ProcFailure(GetError(proc_result))
  ELSE Bind(extract_value(T, proc_result.value, 0),
         LAMBDA r : [kind |-> CASE r.st = "Ok" -> "Ok"
                                [] r.st = "Err" -> "ProtobufFailure"
                                [] r.st = "Panic" -> "Panic",
                     val |-> r.val, err |-> r.err, calls |-> r.calls])

\* faulty variant: the first result is looked at before the response's own error
extract_single_result_results_first(T, resp) ==
  IF Len(resp.results) > 0 THEN extract_result(T, resp.results[1])
  ELSE IF HasError(resp) THEN ProcFailure(GetError(resp))
  ELSE [kind |-> "Panic", val |-> <<>>, err |-> "index out of bounds", calls |-> 0]

\* response.results[0] is a bounds-checked index: it panics on an empty list
extract_single_result(T, resp) ==
  IF HasError(resp) THEN ProcFailure(GetError(resp))
  ELSE IF Len(resp.results) = 0
       THEN [kind |-> "Panic", val |-> <<>>, err |-> "index out of bounds", calls |-> 0]
       ELSE extract_result(T, resp.results[1])

ProcResults ==
  {[error |-> e, value |-> v] :
     e \in {<<>>, <<"proc failed">>},
     v \in {<<>>, <<1>>, <<128>>, <<3, 97, 98, 99>>, <<10, 1, 1>>}}

Responses ==
  {[error |-> e, results |-> rs] :
     e \in {<<>>, <<"call failed">>}, rs \in SeqsUpTo(ProcResults, MaxResults)}

ResultTypes == {TU32, TStr, TUnit, TVec(TU32), TTup(<<TU32, TStr>>)}

InitResult ==
  /\ response \in Responses
  /\ rty \in ResultTypes
  /\ ridx = 0
  /\ out = NoOut
  /\ rpc = "start"
  /\ IdleCodec /\ IdleWire /\ IdleStream

\* extract_single_result::<T>(client, &response)
ExtractSingleResult ==
  /\ rpc = "start"
  /\ out' = extract_single_result(rty, response)
  /\ rpc' = "single"
  /\ UNCHANGED <<response, rty, ridx, cvars, wvars, svars>>

\* extract_result::<T>(client, &response.results[i])
ExtractResult ==
  /\ rpc = "start"
  /\ \E i \in 1..Len(response.results) :
       /\ ridx' = i
       /\ out' = extract_result(rty, response.results[i])
  /\ rpc' = "result"
  /\ UNCHANGED <<response, rty, cvars, wvars, svars>>

NextResult == ExtractSingleResult \/ ExtractResult

SpecResult == InitResult /\ [][NextResult]_vars

\* ----------------------------------------------------------- stream reader
Max(a, b) == IF a > b THEN a ELSE b

\* a message as write_length_delimited_to puts it on a stream
LengthDelimited(body) == Varint(Len(body)) \o body

\* protobuf::parse_length_delimited_from::<krpc::List>: a varint length, then
\* the message's fields under a pushed limit of that length, read until the
\* limit is reached or the data is exhausted.
parse_length_delimited_from(b) ==
  Bind(ReadVarint(b, 0, Len(b)),
       LAMBDA l : IF l.st # "Ok" THEN l
                  ELSE MergeItems(b, l.pos, l.pos + l.val, <<>>))

\* What a CodedInputStream over a reader has taken from the reader when a parse
\* that stopped at offset r.pos returns: at least the bytes the parse consumed
\* (which is all of the data when the parse ran into its end, and no more than
\* r.pos need be taken when it stopped at the message's own limit); at most
\* what the reader handed over to the last fill of the stream's buffer, which
\* began before r.pos.  What is left in the buffer is dropped with the stream.
Fetched(r, avail) ==
  {c \in 0..avail :
     /\ c >= r.pos
     /\ c <= Max(r.pos - 1, 0) + INPUT_STREAM_BUFFER_SIZE}

Msgs == {<<>>, <<<<1>>>>, <<<<1>>, <<2, 3>>>>}

RECURSIVE StreamOf(_)
StreamOf(ms) ==
  IF ms = <<>> THEN <<>>
  ELSE LengthDelimited(ListWire(Head(ms))) \o StreamOf(Tail(ms))

InitStream ==
  /\ sent \in SeqsUpTo(Msgs, MaxMsgs)
  /\ sock = StreamOf(sent)
  /\ got = <<>>
  /\ IdleCodec /\ IdleWire /\ IdleResult

\* read_message::<krpc::List>(&mut sock)
ReadMessage ==
  /\ Len(got) < Len(sent)
  /\ \E r \in {parse_length_delimited_from(sock)} :
       \E c \in Fetched(r, Len(sock)) :
         /\ got' = Append(got, [st |-> r.st, msg |-> r.val, err |-> r.err])
         /\ sock' = SubSeq(sock, c + 1, Len(sock))
  /\ UNCHANGED <<sent, cvars, wvars, rvars>>

NextStream == ReadMessage

SpecStream == InitStream /\ [][NextStream]_vars

\* ================================================================= claims

\* The bytes the first k slots of tuple value v own in the tuple's encoding.
RECURSIVE OwnLen(_, _, _)
OwnLen(ts, v, k) ==
  IF k = 0 THEN 0 ELSE OwnLen(ts, v, k - 1) + Len(encode_to_bytes(ts[k], v[k]))

\* The bytes that belong to the value decoded at dty from the encoding of val.
OwnBytes ==
  IF dty = ty \/ Kind(ty) # "tup" THEN Len(bytes)
  ELSE IF Kind(dty) = "tup" /\ Len(dty[2]) < Len(ty[2]) /\ dty = SlotPrefix(ty, Len(dty[2]))
       THEN OwnLen(ty[2], val, Len(dty[2]))
       ELSE OwnLen(ty[2], val, 1)

\* C1: decoding the bytes encode_to_bytes produced for a value, at the value's
\* own type, succeeds and returns the value.
C1_RoundTrip ==
  (pc = "decoded" /\ dty = ty) => (res.st = "Ok" /\ res.val = val)

\* C4: a successful extract_value leaves the stream right after the bytes of its
\* own value; decoding the leading slots of a tuple stops where the next slot starts.
C4_NoOverRead ==
  (pc = "decoded" /\ res.st = "Ok") => res.pos = OwnBytes

\* C8: the encoding of a sequence, decoded as a set, succeeds and yields exactly
\* the distinct values of the sequence.
C8_SetDedup ==
  (pc = "decoded" /\ Kind(ty) = "vec" /\ dty = TSet(ty[2]))
    => (res.st = "Ok" /\ res.val = Range(val) /\ Cardinality(res.val) = Cardinality(Range(val)))

\* C10: the encoding of a sequence of n elements is a list wrapper of n blobs, the
\* i-th being encode_to_bytes of the i-th element; decoding it returns, in the same
\* order, what each blob decodes to on a stream of its own.
C10_DoubleEncoding ==
  (pc \in {"encoded", "decoded"} /\ Kind(ty) = "vec") =>
    LET m == MergeItems(bytes, 0, Len(bytes), <<>>) IN
    /\ m.st = "Ok"
    /\ Len(m.val) = Len(val)
    /\ \A i \in 1..Len(val) : m.val[i] = encode_to_bytes(ty[2], val[i])
    /\ (pc = "decoded" /\ dty = ty) =>
         /\ res.st = "Ok"
         /\ Len(res.val) = Len(val)
         /\ \A i \in 1..Len(val) :
              LET e == extract_value(ty[2], encode_to_bytes(ty[2], val[i]), 0) IN
              e.st = "Ok" /\ res.val[i] = e.val

C10_Witness ==
  /\ pc = "decoded" /\ ty = TVec(TStr) /\ dty = ty
  /\ val = <<StrAbc, <<>>, StrAbc>>
  /\ bytes = <<10, 4, 3, 97, 98, 99, 10, 1, 0, 10, 4, 3, 97, 98, 99>>
  /\ res.st = "Ok" /\ res.val = val

\* The nested decodes of a wrapper in the order the code makes them, each as
\* <<type, blob>>: items in order; for a mapping each entry's key, then its value.
DecodeOrder(t, items) ==
  IF Kind(t) = "map"
  THEN [j \in 1..(2 * Len(items)) |->
          IF j % 2 = 1 THEN <<t[2], items[(j + 1) \div 2].key>>
          ELSE <<t[3], items[j \div 2].value>>]
  ELSE [j \in 1..Len(items) |-> <<t[2], items[j]>>]

\* Where slot i of a tuple starts on the shared stream when the slots before it
\* decoded one after the other.
RECURSIVE SlotStart(_, _, _)
SlotStart(ts, b, i) ==
  IF i = 1 THEN 0 ELSE extract_value(ts[i - 1], b, SlotStart(ts, b, i - 1)).pos

\* The result of the j-th nested decode of the payload in wbytes.
Nested(j) ==
  IF Kind(wty) = "tup" THEN extract_value(wty[2][j], wbytes, SlotStart(wty[2], wbytes, j))
  ELSE LET o == DecodeOrder(wty, witems) IN extract_value(o[j][1], o[j][2], 0)

NestedCount == IF Kind(wty) = "tup" THEN Len(wty[2]) ELSE Len(DecodeOrder(wty, witems))

RECURSIVE CallsUpTo(_)
CallsUpTo(j) == IF j = 0 THEN 0 ELSE CallsUpTo(j - 1) + Nested(j).calls

FirstFailing == {j \in 1..NestedCount :
                   Nested(j).st # "Ok" /\ \A k \in 1..(j - 1) : Nested(k).st = "Ok"}

\* C9: when a nested decode of a sequence, set, mapping or tuple fails, the
\* composite decode fails with the error of the first failing nested decode in
\* decode order, returns no container, and decodes nothing after the failing one.
C9_FailFast ==
  wpc = "decoded" =>
    \A f \in FirstFailing :
      /\ wres.st = Nested(f).st
      /\ wres.err = Nested(f).err
      /\ wres.val = <<>>
      /\ wres.calls = 1 + CallsUpTo(f)

C9_Witness ==
  /\ wpc = "decoded" /\ wty = TMap(TStr, TU32)
  /\ witems = <<[key |-> <<1, 97>>, value |-> <<1>>],
                [key |-> <<1, 255>>, value |-> <<128>>],
                [key |-> <<2, 97>>, value |-> <<2>>]>>
  /\ wres.st = "Err" /\ wres.err = "Utf8" /\ wres.calls = 4

\* C7: a dictionary wrapper decoded as a mapping has exactly the distinct decoded
\* keys, each bound to the decoded value of the last entry with that key.
C7_LastWriteWins ==
  (wpc = "decoded" /\ Kind(wty) = "map" /\ wres.st = "Ok") =>
    LET n == Len(witems)
        dk(i) == extract_value(wty[2], witems[i].key, 0).val
        dv(i) == extract_value(wty[3], witems[i].value, 0).val
    IN /\ DOMAIN wres.val = {dk(i) : i \in 1..n}
       /\ \A i \in 1..n :
            (\A j \in (i + 1)..n : dk(j) # dk(i)) => wres.val[dk(i)] = dv(i)

C7_Witness ==
  /\ wpc = "decoded" /\ wty = TMap(TU32, TStr)
  /\ witems = <<[key |-> <<1>>, value |-> <<1, 97>>],
                [key |-> <<2>>, value |-> <<1, 97>>],
                [key |-> <<129, 0>>, value |-> <<3, 97, 98, 99>>]>>
  /\ wres.st = "Ok" /\ DOMAIN wres.val = {1, 2}
  /\ wres.val[1] = StrAbc /\ wres.val[2] = StrA

\* C2: a response with a top-level error yields that error as the remote failure,
\* whatever its results hold, and nothing of a result is decoded.
C2_FailurePrecedence ==
  (rpc = "single" /\ HasError(response)) =>
    /\ out.kind = "ProcFailure"
    /\ out.err = GetError(response)
    /\ out.calls = 0

C2_Witness ==
  /\ rpc = "single" /\ rty = TU32
  /\ response = [error |-> <<"call failed">>,
                 results |-> <<[error |-> <<>>, value |-> <<1>>]>>]
  /\ out.kind = "ProcFailure" /\ out.err = "call failed"

\* C3: extract_single_result ends, for every response, in one of Failed (remote
\* failure), Decoded (value) or Malformed (decode error), and never panics.
C3_TotalClassification ==
  rpc = "single" => out.kind \in {"ProcFailure", "Ok", "ProtobufFailure"}

\* C6: extract_result returns the result's error as ProcFailure without decoding
\* the payload; without an error it decodes the payload and returns the value, or
\* the decode error as ProtobufFailure, never a ProcFailure.
C6_DistinctFailures ==
  rpc = "result" =>
    LET pr == response.results[ridx]
        d == extract_value(rty, pr.value, 0)
    IN IF HasError(pr)
       THEN out.kind = "ProcFailure" /\ out.err = GetError(pr) /\ out.calls = 0
       ELSE /\ out.kind # "ProcFailure"
            /\ out.calls >= 1
            /\ d.st = "Ok" => (out.kind = "Ok" /\ out.val = d.val)
            /\ d.st = "Err" => (out.kind = "ProtobufFailure" /\ out.err = d.err)

C6_Witness ==
  /\ rpc = "result" /\ rty = TU32 /\ ridx = 2
  /\ response.results = <<[error |-> <<"proc failed">>, value |-> <<1>>],
                          [error |-> <<>>, value |-> <<128>>]>>
  /\ out.kind = "ProtobufFailure" /\ out.err = "UnexpectedEof"

\* C5: k successive read_message calls return the first k messages of the source
\* in order and leave the source at the first byte of message k + 1.
C5_ExactFraming ==
  LET k == Len(got) IN
  /\ \A i \in 1..k : got[i].st = "Ok" /\ got[i].msg = sent[i]
  /\ sock = StreamOf(SubSeq(sent, k + 1, Len(sent)))

====
